---- MODULE Spec2Model ----
(***************************************************************************)
(* polyglot-keeper: the synchronisation and change-tracking engine.        *)
(*                                                                         *)
(* A JSON object is a sequence of entries [k, v] in insertion order.  A    *)
(* property name k is a non-empty sequence of dot-free atoms: the name     *)
(* "greeting" is <<"greeting">> and the name "nested.key" is               *)
(* <<"nested", "key">>.  A dot-path key is a sequence of atoms too, so     *)
(* joining with "." is concatenation and key.split(".") yields one         *)
(* single-atom name per atom.  Arrays are not modelled; "num" stands for   *)
(* any non-string primitive leaf.                                          *)
(***************************************************************************)
EXTENDS Integers, Sequences, FiniteSets, TLC

----------------------------------------------------------------------------
(* JSON values *)

Str(s) == [t |-> "str", s |-> s, o |-> <<>>]
Num == [t |-> "num", s |-> "", o |-> <<>>]
Obj(o) == [t |-> "obj", s |-> "", o |-> o]
Undefined == [t |-> "undef", s |-> "", o |-> <<>>]

Entry(k, v) == [k |-> k, v |-> v]

Range(q) == {q[i] : i \in 1..Len(q)}

\* obj[name]: the value of the own property `name`, or undefined
Lookup(obj, name) ==
  IF \E i \in 1..Len(obj) : obj[i].k = name
  THEN obj[CHOOSE i \in 1..Len(obj) : obj[i].k = name].v
  ELSE Undefined

\* name in obj
HasKey(obj, name) == \E i \in 1..Len(obj) : obj[i].k = name

\* obj[name] = v: an existing property keeps its position, a new one is appended
Put(obj, name, v) ==
  IF HasKey(obj, name)
  THEN [i \in 1..Len(obj) |-> IF obj[i].k = name THEN Entry(name, v) ELSE obj[i]]
  ELSE Append(obj, Entry(name, v))

\* delete obj[name]
Del(obj, name) == SelectSeq(obj, LAMBDA e : e.k # name)

\* JavaScript truthiness of a value (an object is truthy, "" and undefined are not;
\* a non-string primitive may be 0, false or null and is taken to be falsy or not
\* an object either way, which is all the callers ask)
IsObject(v) == v.t = "obj"

----------------------------------------------------------------------------
(* Tree codec: src/src/utils/index.ts *)

RECURSIVE extractKeys(_, _)
extractKeys(obj, prefix) ==
  IF obj = <<>> THEN <<>>
  ELSE LET e == Head(obj)
           fullKey == prefix \o e.k
       IN (IF IsObject(e.v) THEN extractKeys(e.v.o, fullKey) ELSE <<fullKey>>)
          \o extractKeys(Tail(obj), prefix)

RECURSIVE getNestedFrom(_, _)
getNestedFrom(current, parts) ==
  IF parts = <<>>
  THEN (IF current.t = "str" THEN current ELSE Undefined)
  ELSE IF ~IsObject(current) THEN Undefined
       ELSE getNestedFrom(Lookup(current.o, <<Head(parts)>>), Tail(parts))

getNestedValue(obj, key) == getNestedFrom(Obj(obj), key)

RECURSIVE setNestedValue(_, _, _)
setNestedValue(obj, key, value) ==
  IF Len(key) = 1 THEN Put(obj, key, value)
  ELSE LET part == <<Head(key)>>
           cur == Lookup(obj, part)
           child == IF IsObject(cur) THEN cur.o ELSE <<>>
       IN Put(obj, part, Obj(setNestedValue(child, Tail(key), value)))

RECURSIVE cleanupEmptyObjects(_)
cleanupEmptyObjects(obj) ==
  IF obj = <<>> THEN <<>>
  ELSE LET e == Head(obj)
           rest == cleanupEmptyObjects(Tail(obj))
       IN IF IsObject(e.v)
          THEN LET val == cleanupEmptyObjects(e.v.o)
               IN IF val = <<>> THEN rest ELSE <<Entry(e.k, Obj(val))>> \o rest
          ELSE <<e>> \o rest

\* the walk of deleteNestedKey down to the parent of the last part: the tree with
\* the last part deleted there, or "stop" when an intermediate part is no object
RECURSIVE deleteAt(_, _)
deleteAt(obj, key) ==
  IF Len(key) = 1 THEN [ok |-> TRUE, o |-> Del(obj, key)]
  ELSE LET part == <<Head(key)>>
           cur == Lookup(obj, part)
       IN IF ~IsObject(cur) THEN [ok |-> FALSE, o |-> obj]
          ELSE LET sub == deleteAt(cur.o, Tail(key))
               IN [ok |-> sub.ok, o |-> Put(obj, part, Obj(sub.o))]

deleteNestedKey(obj, key) ==
  LET walk == deleteAt(obj, key)
  IN IF walk.ok THEN cleanupEmptyObjects(walk.o) ELSE obj

RECURSIVE reorderToMatchSource(_, _)
reorderToMatchSource(source, target) ==
  IF source = <<>> THEN <<>>
  ELSE LET key == Head(source).k
           sourceValue == Head(source).v
           targetValue == Lookup(target, key)
           rest == reorderToMatchSource(Tail(source), target)
       IN IF HasKey(target, key)
          THEN (IF IsObject(sourceValue) /\ IsObject(targetValue)
                THEN <<Entry(key, Obj(reorderToMatchSource(sourceValue.o, targetValue.o)))>>
                ELSE <<Entry(key, targetValue)>>) \o rest
          ELSE rest

\* the loop of removeObsoleteKeys over targetKeys[i..]
RECURSIVE removeLoop(_, _, _, _)
removeLoop(targetData, targetKeys, enKeysSet, removed) ==
  IF targetKeys = <<>> THEN [data |-> targetData, removed |-> removed]
  ELSE IF Head(targetKeys) \notin enKeysSet
       THEN removeLoop(deleteNestedKey(targetData, Head(targetKeys)),
                       Tail(targetKeys), enKeysSet, removed + 1)
       ELSE removeLoop(targetData, Tail(targetKeys), enKeysSet, removed)

removeObsoleteKeys(targetData, enKeys) ==
  removeLoop(targetData, extractKeys(targetData, <<>>), Range(enKeys), 0)

----------------------------------------------------------------------------
(* Configuration and the files on disk *)

RetryDelay == 35000
BatchDelay == 2000

\* bounds of the explored configurations and of the oracle's misbehaviour
MaxBatchSize == 2
MaxRetries == 1
MaxFaults == 1

Locales == <<"en", "ru", "de">>
DefaultLanguage == "en"
targetLocales == SelectSeq(Locales, LAMBDA locale : locale # DefaultLanguage)

NoSection == [present |-> FALSE, frozen |-> <<>>, values |-> <<>>]
Section(frozen, values) == [present |-> TRUE, frozen |-> frozen, values |-> values]
NoLockFile == [exists |-> FALSE, json |-> NoSection, md |-> NoSection]
LockFile(json, md) == [exists |-> TRUE, json |-> json, md |-> md]

NoTargetFile == [exists |-> FALSE, data |-> <<>>]
TargetFile(data) == [exists |-> TRUE, data |-> data]

VARIABLES
  cfg,          \* kind, trackChanges, forceRetranslate, batchSize, maxRetries
  primaryExists, \* the primary locale file (tree) or directory (markdown) exists
  langDirExists, \* the locales directory of the tree sync exists
  source,       \* the parsed primary locale file
  targets,      \* locale -> the locale's JSON file
  lockFile,     \* .polyglot-lock.json
  pc,           \* where the run is
  sourceKeys, changedKeys, frozenKeys, skippedKeys, lockValues,
  li,           \* index into targetLocales of the locale being processed
  targetData, removed, missingKeys, keysToUpdate, allKeysToTranslate,
  i, batchKeys, batch, retries, translated, failed,
  results,
  mdSource,     \* the markdown files of the default locale: [relativePath, content]
  mdTargets,    \* locale -> relativePath -> the translated markdown file
  sourceFiles, previousHashes, frozenSet, changedFiles, changedSet, skippedSet,
  \* history of the run, read by the properties only
  sent,         \* the units sent to the oracle: [locale, key, present]
  calls,        \* the oracle invocations for the current chunk
  slept,        \* the last sleep since the last oracle invocation (0: none)
  reported,     \* the changed set as change detection computed it
  answers,      \* what the operator answered
  faults,       \* the chunks the oracle has misbehaved on so far
  disk0,        \* the files on disk when the run started
  received,     \* the units the oracle returned: [locale, key]
  lockWrites,   \* how many times the run has written the lock file
  run,          \* "first", or "second" when the sync is run again on the same project
  prevRun,      \* what the run before this one did
  chunks,       \* the chunks of one unit or more built so far for the locale:
                \* [keys, payload, outcome]
  \* the tree codec applied to an input on its own
  uPc, uTarget, uKeys, uOut, uCount, uSource, uKey

uvars == <<uPc, uTarget, uKeys, uOut, uCount, uSource, uKey>>

hvars == <<run, prevRun>>

svars == <<cfg, primaryExists, source, targets, lockFile, pc, sourceKeys, changedKeys,
           frozenKeys, skippedKeys, lockValues, li, targetData, removed, missingKeys,
           keysToUpdate, allKeysToTranslate, i, batchKeys, batch, retries, translated,
           failed, results, mdSource, mdTargets, sourceFiles, previousHashes, frozenSet,
           changedFiles, changedSet, skippedSet, sent, calls, slept, reported, answers,
           faults, disk0, langDirExists, received, lockWrites, run, prevRun, chunks>>

mdvars == <<mdSource, mdTargets, sourceFiles, previousHashes, frozenSet, changedFiles,
            changedSet, skippedSet>>

trackingEnabled == cfg.trackChanges = "on" \/ cfg.trackChanges = "carefully"

----------------------------------------------------------------------------
(* Lock store and change detection of the tree sync: src/src/core/sync.ts *)

\* loadLockFile that reads the values and takes the frozen list to be empty
loadLockFileValuesOnly(lf) ==
  IF lf.exists
  THEN [values |-> lf.json.values, frozen |-> <<>>]
  ELSE [values |-> <<>>, frozen |-> <<>>]

loadLockFile(lf) ==
  IF lf.exists
  THEN [values |-> lf.json.values, frozen |-> lf.json.frozen]
  ELSE [values |-> <<>>, frozen |-> <<>>]

RECURSIVE jsonValuesOf(_, _, _, _)
jsonValuesOf(sourceData, keys, skipSet, previousValues) ==
  IF keys = <<>> THEN <<>>
  ELSE LET key == Head(keys)
           rest == jsonValuesOf(sourceData, Tail(keys), skipSet, previousValues)
           value == getNestedValue(sourceData, key)
       IN IF key \in skipSet /\ HasKey(previousValues, key)
          THEN <<Entry(key, Lookup(previousValues, key))>> \o Del(rest, key)
          ELSE IF value # Undefined
               THEN <<Entry(key, value)>> \o Del(rest, key)
               ELSE rest

\* saveLockFile that snapshots the current value of a skipped key too
saveLockFileOfCurrentValues(lf, sourceData, keys, frozen, skipped, previousValues) ==
  LockFile(Section(frozen, jsonValuesOf(sourceData, keys, {}, previousValues)),
           IF lf.exists THEN lf.md ELSE NoSection)

saveLockFile(lf, sourceData, keys, frozen, skipped, previousValues) ==
  LockFile(Section(frozen, jsonValuesOf(sourceData, keys, Range(skipped), previousValues)),
           IF lf.exists THEN lf.md ELSE NoSection)

\* findChangedKeys without `if (frozenSet.has(key)) continue`
findChangedKeysOfFrozenToo(sourceData, keys, lockVals, frozen) ==
  SelectSeq(keys, LAMBDA key :
    /\ HasKey(lockVals, key)
    /\ getNestedValue(sourceData, key) # Lookup(lockVals, key))

\* findChangedKeys without `lockedValue !== undefined`
findChangedKeysWithoutSnapshot(sourceData, keys, lockVals, frozen) ==
  SelectSeq(keys, LAMBDA key :
    /\ key \notin Range(frozen)
    /\ getNestedValue(sourceData, key) # Lookup(lockVals, key))

findChangedKeys(sourceData, keys, lockVals, frozen) ==
  SelectSeq(keys, LAMBDA key :
    /\ key \notin Range(frozen)
    /\ HasKey(lockVals, key)
    /\ getNestedValue(sourceData, key) # Lookup(lockVals, key))

saveLocaleFile(data, sourceData) == TargetFile(reorderToMatchSource(sourceData, data))

\* the payload of one chunk: batchKeys.reduce(...)
RECURSIVE buildBatch(_, _)
buildBatch(keys, sourceData) ==
  IF keys = <<>> THEN <<>>
  ELSE LET key == keys[Len(keys)]
           acc == buildBatch(SubSeq(keys, 1, Len(keys) - 1), sourceData)
           value == getNestedValue(sourceData, key)
       IN IF value.t = "str" /\ value.s # "" THEN Put(acc, key, value) ELSE acc

\* for (const [key, value] of Object.entries(translatedBatch)) setNestedValue(...)
RECURSIVE mergeBatch(_, _)
mergeBatch(data, translatedBatch) ==
  IF translatedBatch = <<>> THEN data
  ELSE mergeBatch(setNestedValue(data, Head(translatedBatch).k, Head(translatedBatch).v),
                  Tail(translatedBatch))

Stats(locale, missing, trans, upd, fail, rem) ==
  [locale |-> locale, missingKeys |-> missing, translated |-> trans, updated |-> upd,
   failed |-> fail, removed |-> rem]

Min(x, y) == IF x < y THEN x ELSE y

----------------------------------------------------------------------------
(* syncTranslations: src/src/core/sync.ts *)

NoAnswers == [global |-> "none", per |-> <<>>]

\* the files and directories of the project as they are on disk
Disk == [lockFile |-> lockFile, targets |-> targets, mdTargets |-> mdTargets,
         langDir |-> langDirExists]

\* lines 341-395: the run up to the first prompt; fs.mkdir(langDir, recursive) at
\* line 347 comes before the primary locale file is looked for
SyncStart ==
  /\ pc = "idle"
  /\ cfg.kind = "json"
  /\ disk0' = Disk
  /\ langDirExists' = TRUE
  /\ IF ~primaryExists
     THEN /\ pc' = "aborted"
          /\ UNCHANGED <<sourceKeys, changedKeys, frozenKeys, lockValues, reported>>
     ELSE LET keys == extractKeys(source, <<>>)
              lock == loadLockFile(lockFile)
              detect == ~cfg.forceRetranslate /\ trackingEnabled /\ Len(lock.values) # 0
              changed == IF detect
                         THEN findChangedKeys(source, keys, lock.values, lock.frozen)
                         ELSE <<>>
          IN /\ sourceKeys' = keys
             /\ lockValues' = IF ~cfg.forceRetranslate /\ trackingEnabled
                              THEN lock.values ELSE <<>>
             /\ frozenKeys' = IF ~cfg.forceRetranslate /\ trackingEnabled
                              THEN lock.frozen ELSE <<>>
             /\ changedKeys' = changed
             /\ reported' = Range(changed)
             /\ pc' = IF cfg.trackChanges = "carefully" /\ Len(changed) > 0
                      THEN "ask" ELSE "locale"
  /\ UNCHANGED <<uvars, hvars, chunks, received, lockWrites, mdvars, cfg, primaryExists, source,
                 targets, lockFile, skippedKeys, li, targetData,
                 removed, missingKeys, keysToUpdate, allKeysToTranslate, i, batchKeys, batch,
                 retries, translated, failed, results, sent, calls, slept, answers, faults>>

\* lines 395-457: askChangedKeysAction answers retranslate-all
AskRetranslateAll ==
  /\ pc = "ask"
  /\ cfg.kind = "json"
  /\ answers' = [global |-> "retranslate-all", per |-> <<>>]
  /\ pc' = "locale"
  /\ UNCHANGED <<uvars, hvars, chunks, langDirExists, received, lockWrites, mdvars, cfg, primaryExists, source, targets, lockFile, sourceKeys, changedKeys,
                 frozenKeys, skippedKeys, lockValues, li, targetData, removed, missingKeys,
                 keysToUpdate, allKeysToTranslate, i, batchKeys, batch, retries, translated,
                 failed, results, sent, calls, slept, reported, faults, disk0>>

\* lines 397-401: askChangedKeysAction answers skip-all
AskSkipAll ==
  /\ pc = "ask"
  /\ cfg.kind = "json"
  /\ answers' = [global |-> "skip-all", per |-> <<>>]
  /\ skippedKeys' = changedKeys
  /\ changedKeys' = <<>>
  /\ pc' = "locale"
  /\ UNCHANGED <<uvars, hvars, chunks, langDirExists, received, lockWrites, mdvars, cfg, primaryExists, source, targets, lockFile, sourceKeys,
                 frozenKeys, lockValues, li, targetData, removed, missingKeys,
                 keysToUpdate, allKeysToTranslate, i, batchKeys, batch, retries, translated,
                 failed, results, sent, calls, slept, reported, faults, disk0>>

PerKeyActions == {"retranslate", "skip", "freeze"}

\* the keys of changed, in order, that the operator answered `action` for
Answered(changed, per, action) ==
  LET picked == {n \in 1..Len(changed) : per[n] = action}
      F[n \in 0..Len(changed)] ==
        IF n = 0 THEN <<>>
        ELSE IF n \in picked THEN Append(F[n - 1], changed[n]) ELSE F[n - 1]
  IN F[Len(changed)]

\* lines 402-451: askChangedKeysAction answers review, askPerKeyAction once per key
AskReview ==
  /\ pc = "ask"
  /\ cfg.kind = "json"
  /\ \E per \in [1..Len(changedKeys) -> PerKeyActions] :
       /\ answers' = [global |-> "review", per |-> per]
       /\ frozenKeys' = frozenKeys \o Answered(changedKeys, per, "freeze")
       /\ skippedKeys' = Answered(changedKeys, per, "skip")
       /\ changedKeys' = Answered(changedKeys, per, "retranslate")
  /\ pc' = "locale"
  /\ UNCHANGED <<uvars, hvars, chunks, langDirExists, received, lockWrites, mdvars, cfg, primaryExists, source, targets, lockFile, sourceKeys,
                 lockValues, li, targetData, removed, missingKeys,
                 keysToUpdate, allKeysToTranslate, i, batchKeys, batch, retries, translated,
                 failed, results, sent, calls, slept, reported, faults, disk0>>

present(data, key) == getNestedValue(data, key) # Undefined

\* processLocale that takes every changed key for an update, in the target or not
BeginLocaleUpdatingAbsent ==
  /\ pc = "locale"
  /\ cfg.kind = "json"
  /\ li <= Len(targetLocales)
  /\ LET localeCode == targetLocales[li]
         loaded == IF targets[localeCode].exists THEN targets[localeCode].data ELSE <<>>
         rm == removeObsoleteKeys(loaded, sourceKeys)
         missing == SelectSeq(sourceKeys, LAMBDA key : ~present(rm.data, key))
         update == IF cfg.forceRetranslate
                   THEN SelectSeq(sourceKeys, LAMBDA key : present(rm.data, key))
                   ELSE IF Len(changedKeys) > 0
                        THEN changedKeys
                        ELSE <<>>
         all == missing \o update
     IN /\ targetData' = rm.data
        /\ removed' = rm.removed
        /\ missingKeys' = missing
        /\ keysToUpdate' = update
        /\ allKeysToTranslate' = all
        /\ i' = 0
        /\ translated' = 0
        /\ failed' = 0
        /\ chunks' = <<>>
        /\ IF Len(all) = 0 /\ rm.removed = 0
           THEN /\ targets' = [targets EXCEPT ![localeCode] = saveLocaleFile(rm.data, source)]
                /\ results' = Append(results, Stats(localeCode, 0, 0, 0, 0, rm.removed))
                /\ li' = li + 1
                /\ pc' = "locale"
           ELSE /\ pc' = "chunk"
                /\ UNCHANGED <<targets, results, li>>
  /\ UNCHANGED <<uvars, hvars, langDirExists, received, lockWrites, mdvars, cfg, primaryExists, source, lockFile, sourceKeys, changedKeys, frozenKeys,
                 skippedKeys, lockValues, batchKeys, batch, retries, sent, calls, slept,
                 reported, answers, faults, disk0>>

\* processLocale, lines 231-276: load the target, remove obsolete keys, find what to send
BeginLocale ==
  /\ pc = "locale"
  /\ cfg.kind = "json"
  /\ li <= Len(targetLocales)
  /\ LET localeCode == targetLocales[li]
         loaded == IF targets[localeCode].exists THEN targets[localeCode].data ELSE <<>>
         rm == removeObsoleteKeys(loaded, sourceKeys)
         missing == SelectSeq(sourceKeys, LAMBDA key : ~present(rm.data, key))
         update == IF cfg.forceRetranslate
                   THEN SelectSeq(sourceKeys, LAMBDA key : present(rm.data, key))
                   ELSE IF Len(changedKeys) > 0
                        THEN SelectSeq(changedKeys, LAMBDA key : present(rm.data, key))
                        ELSE <<>>
         all == missing \o update
     IN /\ targetData' = rm.data
        /\ removed' = rm.removed
        /\ missingKeys' = missing
        /\ keysToUpdate' = update
        /\ allKeysToTranslate' = all
        /\ i' = 0
        /\ translated' = 0
        /\ failed' = 0
        /\ chunks' = <<>>
        /\ IF Len(all) = 0 /\ rm.removed = 0
           THEN /\ targets' = [targets EXCEPT ![localeCode] = saveLocaleFile(rm.data, source)]
                /\ results' = Append(results, Stats(localeCode, 0, 0, 0, 0, rm.removed))
                /\ li' = li + 1
                /\ pc' = "locale"
           ELSE /\ pc' = "chunk"
                /\ UNCHANGED <<targets, results, li>>
  /\ UNCHANGED <<uvars, hvars, langDirExists, received, lockWrites, mdvars, cfg, primaryExists, source, lockFile, sourceKeys, changedKeys, frozenKeys,
                 skippedKeys, lockValues, batchKeys, batch, retries, sent, calls, slept,
                 reported, answers, faults, disk0>>

\* translateKeys, lines 187-198: the next chunk and its payload
BuildBatch ==
  /\ pc = "chunk"
  /\ i < Len(allKeysToTranslate)
  /\ LET keys == SubSeq(allKeysToTranslate, i + 1, Min(i + cfg.batchSize, Len(allKeysToTranslate)))
     IN /\ batchKeys' = keys
        /\ batch' = buildBatch(keys, source)
        /\ chunks' = IF keys = <<>> THEN chunks
                      ELSE Append(chunks, [keys |-> keys, payload |-> buildBatch(keys, source),
                                           outcome |-> "pending"])
  /\ retries' = cfg.maxRetries
  /\ calls' = <<>>
  /\ pc' = "call"
  /\ UNCHANGED <<uvars, hvars, langDirExists, received, lockWrites, mdvars, cfg, primaryExists, source, targets, lockFile, sourceKeys, changedKeys,
                 frozenKeys, skippedKeys, lockValues, li, targetData, removed, missingKeys,
                 keysToUpdate, allKeysToTranslate, i, translated, failed, results, sent,
                 slept, reported, answers, faults, disk0>>

(* The translation oracle: provider.translateBatch(batch, targetLang) *)

Translation == Str("t")

\* keys the oracle may return although they were not asked for
RogueKeys == {<<"b">>}

Ideal(payload) == [n \in 1..Len(payload) |-> Entry(payload[n].k, Translation)]
Without(q, n) == SubSeq(q, 1, n - 1) \o SubSeq(q, n + 1, Len(q))

\* the oracle may misbehave on the current chunk: on at most MaxFaults chunks of a run
MayFault == faults < MaxFaults \/ calls # <<>>
Faulted == IF calls = <<>> THEN faults + 1 ELSE faults

\* a response that is not the payload's keys translated: one key left out, or one
\* key added
Deviations(payload) ==
  {Without(Ideal(payload), n) : n \in 1..Len(payload)}
  \cup {Append(Ideal(payload), Entry(key, Translation)) :
          key \in {r \in RogueKeys : ~HasKey(payload, r)}}

\* one call of provider.translateBatch: what was passed, how it ended, the number of
\* units it returned and the sleep that came before it
Invocation(outcome, returned) ==
  [payload |-> batch, locale |-> targetLocales[li], outcome |-> outcome,
   returned |-> returned, after |-> slept]

Sending ==
  LET localeCode == targetLocales[li]
  IN {[locale |-> localeCode, key |-> batch[n].k,
       present |-> targets[localeCode].exists /\ present(targets[localeCode].data, batch[n].k)]
      : n \in 1..Len(batch)}

\* translateKeys, lines 200-212: the oracle returns translatedBatch
OracleReturns ==
  /\ pc = "call"
  /\ \E translatedBatch \in {Ideal(batch)} \cup
                            (IF MayFault THEN Deviations(batch) ELSE {}) :
       /\ targetData' = mergeBatch(targetData, translatedBatch)
       /\ translated' = translated + Len(translatedBatch)
       /\ calls' = Append(calls, Invocation("ok", Len(translatedBatch)))
       /\ received' = received \cup {[locale |-> targetLocales[li], key |-> translatedBatch[n].k]
                                      : n \in 1..Len(translatedBatch)}
       /\ faults' = IF translatedBatch = Ideal(batch) THEN faults ELSE Faulted
  /\ sent' = sent \cup Sending
  /\ slept' = IF i + cfg.batchSize < Len(allKeysToTranslate) THEN BatchDelay ELSE 0
  /\ i' = i + cfg.batchSize
  /\ chunks' = IF batchKeys = <<>> THEN chunks
                ELSE [chunks EXCEPT ![Len(chunks)].outcome = "ok"]
  /\ pc' = "chunk"
  /\ UNCHANGED <<uvars, hvars, langDirExists, lockWrites, mdvars, cfg, primaryExists, source,
                 targets, lockFile, sourceKeys, changedKeys,
                 frozenKeys, skippedKeys, lockValues, li, removed, missingKeys,
                 keysToUpdate, allKeysToTranslate, batchKeys, batch, retries, failed,
                 results, reported, answers, disk0>>

\* a failed chunk counted as one failure
ChunkFailedCountsOne ==
  /\ failed' = failed + 1
  /\ i' = i + cfg.batchSize
  /\ pc' = "chunk"
  /\ UNCHANGED <<targetData, translated, retries>>

\* translateKeys, lines 213-217: the chunk has failed
ChunkFailed ==
  /\ failed' = failed + Len(batchKeys)
  /\ i' = i + cfg.batchSize
  /\ pc' = "chunk"
  /\ UNCHANGED <<targetData, translated, retries>>

\* a retry after any error
shouldRetryAnyError(retriesLeft, isRateLimit) == retriesLeft > 0

\* translateBatchWithRetry, line 163 (translateMarkdownWithRetry, line 159)
shouldRetry(retriesLeft, isRateLimit) == retriesLeft > 0 /\ isRateLimit

\* translateBatchWithRetry, lines 159-171: provider.translateBatch throws
OracleFails(isRateLimit) ==
  /\ pc = "call"
  /\ MayFault
  /\ faults' = Faulted
  /\ sent' = sent \cup Sending
  /\ calls' = Append(calls, Invocation(IF isRateLimit THEN "429" ELSE "error", 0))
  /\ IF shouldRetry(retries, isRateLimit)
     THEN /\ slept' = RetryDelay
          /\ retries' = retries - 1
          /\ UNCHANGED <<pc, i, failed, targetData, translated, chunks>>
     ELSE /\ slept' = 0
          /\ chunks' = IF batchKeys = <<>> THEN chunks
                        ELSE [chunks EXCEPT ![Len(chunks)].outcome = "failed"]
          /\ ChunkFailed
  /\ UNCHANGED <<uvars, hvars, langDirExists, received, lockWrites, mdvars, cfg, primaryExists, source, targets, lockFile, sourceKeys, changedKeys,
                 frozenKeys, skippedKeys, lockValues, li, removed, missingKeys,
                 keysToUpdate, allKeysToTranslate, batchKeys, batch,
                 results, reported, answers, disk0>>

\* the message of the error has "429"
OracleRateLimited == OracleFails(TRUE)

\* any other error
OracleThrows == OracleFails(FALSE)

\* a locale loop that saves the lock file after each locale
EndLocaleSavingLock ==
  /\ pc = "chunk"
  /\ i >= Len(allKeysToTranslate)
  /\ LET localeCode == targetLocales[li]
         updatedCount == Min(Len(keysToUpdate), translated)
     IN /\ targets' = [targets EXCEPT ![localeCode] = saveLocaleFile(targetData, source)]
        /\ results' = Append(results, Stats(localeCode, Len(missingKeys),
                                            translated - updatedCount, updatedCount,
                                            failed, removed))
  /\ lockFile' = saveLockFile(lockFile, source, sourceKeys, frozenKeys, skippedKeys,
                              lockValues)
  /\ lockWrites' = lockWrites + 1
  /\ li' = li + 1
  /\ pc' = "locale"
  /\ UNCHANGED <<uvars, hvars, chunks, langDirExists, received, mdvars, cfg, primaryExists, source,
                 sourceKeys, changedKeys, frozenKeys,
                 skippedKeys, lockValues, targetData, removed, missingKeys, keysToUpdate,
                 allKeysToTranslate, i, batchKeys, batch, retries, translated, failed,
                 sent, calls, slept, reported, answers, faults, disk0>>

\* processLocale, lines 290-303: all chunks done, write the target and the stats
EndLocale ==
  /\ pc = "chunk"
  /\ i >= Len(allKeysToTranslate)
  /\ LET localeCode == targetLocales[li]
         updatedCount == Min(Len(keysToUpdate), translated)
     IN /\ targets' = [targets EXCEPT ![localeCode] = saveLocaleFile(targetData, source)]
        /\ results' = Append(results, Stats(localeCode, Len(missingKeys),
                                            translated - updatedCount, updatedCount,
                                            failed, removed))
  /\ li' = li + 1
  /\ pc' = "locale"
  /\ UNCHANGED <<uvars, hvars, chunks, langDirExists, received, lockWrites, mdvars, cfg, primaryExists, source, lockFile, sourceKeys, changedKeys, frozenKeys,
                 skippedKeys, lockValues, targetData, removed, missingKeys, keysToUpdate,
                 allKeysToTranslate, i, batchKeys, batch, retries, translated, failed,
                 sent, calls, slept, reported, answers, faults, disk0>>

\* syncTranslations, lines 487-494: the lock file is saved and the stats returned
FinishSync ==
  /\ pc = "locale"
  /\ cfg.kind = "json"
  /\ li > Len(targetLocales)
  /\ lockFile' = IF trackingEnabled \/ cfg.forceRetranslate
                 THEN saveLockFile(lockFile, source, sourceKeys, frozenKeys, skippedKeys,
                                   lockValues)
                 ELSE lockFile
  /\ lockWrites' = IF trackingEnabled \/ cfg.forceRetranslate THEN lockWrites + 1
                    ELSE lockWrites
  /\ pc' = "done"
  /\ UNCHANGED <<uvars, hvars, chunks, langDirExists, received, mdvars, cfg, primaryExists, source, targets, sourceKeys, changedKeys, frozenKeys,
                 skippedKeys, lockValues, li, targetData, removed, missingKeys, keysToUpdate,
                 allKeysToTranslate, i, batchKeys, batch, retries, translated, failed,
                 results, sent, calls, slept, reported, answers, faults, disk0>>

----------------------------------------------------------------------------
(* Markdown documents: src/src/core/markdown-sync.ts *)

\* A document is its end-of-line style and a sequence of parts: prose, fenced code
\* blocks and, once protected, code block tokens.  The text of a part is a sequence
\* of pieces; "$$" and "$&" are pieces of their own.
Prose(s) == [kind |-> "prose", s |-> s, lang |-> ""]
Code(s) == [kind |-> "code", s |-> s, lang |-> ""]
Doc(eol, parts) == [eol |-> eol, parts |-> parts]
NoDoc == Doc("none", <<>>)

NoMdFile == [exists |-> FALSE, content |-> NoDoc]
MdFile(content) == [exists |-> TRUE, content |-> content]

normalizeEol(value) == Doc("lf", value.parts)

\* sha256 is taken to be free of collisions: the digest is named by what was hashed
contentHash(value) == [t |-> "str", s |-> "sha256", o |-> normalizeEol(value).parts]

\* the number of code blocks among the first n parts
RECURSIVE codeBlocksBefore(_, _)
codeBlocksBefore(parts, n) ==
  IF n = 0 THEN 0
  ELSE codeBlocksBefore(parts, n - 1) + (IF parts[n].kind = "code" THEN 1 ELSE 0)

protectCodeBlocks(value) ==
  [text |-> Doc(value.eol,
                [n \in 1..Len(value.parts) |->
                   IF value.parts[n].kind = "code"
                   THEN [kind |-> "token", s |-> <<>>, lang |-> "",
                         n |-> codeBlocksBefore(value.parts, n - 1)]
                   ELSE [kind |-> value.parts[n].kind, s |-> value.parts[n].s,
                         lang |-> value.parts[n].lang, n |-> 0]]),
   replacements |-> SelectSeq(value.parts, LAMBDA part : part.kind = "code")]

\* `${CODE_BLOCK_TOKEN_PREFIX}${index++}__`
tokenOf(index) == "__PGK_CODE_BLOCK_" \o ToString(index) \o "__"

\* String.prototype.replace(pattern, block) with a string for the replacement: "$$"
\* in the block inserts "$" and "$&" inserts the matched text
RECURSIVE GetSubstitution(_, _)
GetSubstitution(block, matched) ==
  IF block = <<>> THEN <<>>
  ELSE (IF Head(block) = "$$" THEN <<"$">>
        ELSE IF Head(block) = "$&" THEN <<matched>>
        ELSE <<Head(block)>>) \o GetSubstitution(Tail(block), matched)

restoreCodeBlocks(value, replacements) ==
  Doc(value.eol,
      [n \in 1..Len(value.parts) |->
         IF value.parts[n].kind = "token" /\ value.parts[n].n < Len(replacements)
         THEN [replacements[value.parts[n].n + 1] EXCEPT
                 !.s = GetSubstitution(@, tokenOf(value.parts[n].n))]
         ELSE [kind |-> value.parts[n].kind, s |-> value.parts[n].s,
               lang |-> value.parts[n].lang]])

loadMarkdownLock(lf) ==
  IF lf.exists /\ lf.md.present
  THEN [values |-> lf.md.values, frozen |-> lf.md.frozen]
  ELSE [values |-> <<>>, frozen |-> <<>>]

\* saveMarkdownLock without `...existing`: the file is written with the md section only
saveMarkdownLockAlone(lf, values, frozen) == LockFile(NoSection, Section(frozen, values))

saveMarkdownLock(lf, values, frozen) ==
  LockFile(IF lf.exists THEN lf.json ELSE NoSection, Section(frozen, values))

\* an insertion-ordered Set: add a member at the end unless it is there
SetAdd(set, x) == IF x \in Range(set) THEN set ELSE Append(set, x)

RECURSIVE SetAddAll(_, _)
SetAddAll(set, xs) == IF xs = <<>> THEN set ELSE SetAddAll(SetAdd(set, Head(xs)), Tail(xs))

currentHashes(files) ==
  [n \in 1..Len(files) |-> Entry(files[n].relativePath, contentHash(files[n].content))]

\* lines 198-205
changedFilesOf(files, previous, frozen) ==
  LET changed == SelectSeq(files, LAMBDA file :
                   /\ file.relativePath \notin Range(frozen)
                   /\ HasKey(previous, file.relativePath)
                   /\ Lookup(previous, file.relativePath) # contentHash(file.content))
  IN [n \in 1..Len(changed) |-> changed[n].relativePath]

\* nextValues of the files that have a snapshot entry only
nextValuesOfKnownOnly(files, previous, skipped) ==
  LET known == SelectSeq(files, LAMBDA file : HasKey(previous, file.relativePath))
  IN [n \in 1..Len(known) |-> Entry(known[n].relativePath, contentHash(known[n].content))]

\* lines 298-306
RECURSIVE nextValuesOf(_, _, _)
nextValuesOf(files, previous, skipped) ==
  IF files = <<>> THEN <<>>
  ELSE LET file == files[Len(files)]
           acc == nextValuesOf(SubSeq(files, 1, Len(files) - 1), previous, skipped)
       IN IF file.relativePath \in Range(skipped) /\ HasKey(previous, file.relativePath)
          THEN Put(acc, file.relativePath, Lookup(previous, file.relativePath))
          ELSE Put(acc, file.relativePath, contentHash(file.content))

\* syncMarkdownTranslations, lines 171-212: the run up to the first prompt
MdStart ==
  /\ pc = "idle"
  /\ cfg.kind = "md"
  /\ disk0' = Disk
  /\ IF ~primaryExists
     THEN /\ pc' = "aborted"
          /\ UNCHANGED <<sourceFiles, previousHashes, frozenSet, changedFiles, changedSet,
                         reported>>
     ELSE LET lock == loadMarkdownLock(lockFile)
              frozen == IF cfg.forceRetranslate THEN <<>> ELSE SetAddAll(<<>>, lock.frozen)
              changed == changedFilesOf(mdSource, lock.values, frozen)
          IN /\ sourceFiles' = mdSource
             /\ previousHashes' = lock.values
             /\ frozenSet' = frozen
             /\ changedFiles' = changed
             /\ reported' = Range(changed)
             /\ changedSet' = IF cfg.trackChanges = "on" THEN SetAddAll(<<>>, changed)
                              ELSE <<>>
             /\ pc' = IF cfg.trackChanges = "carefully" /\ Len(changed) > 0
                      THEN "ask" ELSE "file"
  /\ UNCHANGED <<uvars, hvars, chunks, langDirExists, received, lockWrites, cfg, primaryExists, source, targets, lockFile, sourceKeys,
                 changedKeys, frozenKeys, skippedKeys, lockValues, li, targetData, removed,
                 missingKeys, keysToUpdate, allKeysToTranslate, i, batchKeys, batch, retries,
                 translated, failed, results, mdSource, mdTargets, skippedSet, sent, calls,
                 slept, answers, faults>>

\* what no prompt of the markdown run changes
MdAskFrame ==
  UNCHANGED <<uvars, hvars, chunks, langDirExists, received, lockWrites, cfg, primaryExists, source, targets, lockFile, sourceKeys,
              changedKeys, frozenKeys, skippedKeys, lockValues, li, targetData, removed,
              missingKeys, keysToUpdate, allKeysToTranslate, i, batchKeys, batch, retries,
              translated, failed, results, mdSource, mdTargets, sourceFiles, previousHashes,
              changedFiles, sent, calls, slept, reported, faults, disk0>>

\* lines 215-219: askChangedKeysAction answers retranslate-all
MdAskRetranslateAll ==
  /\ pc = "ask"
  /\ cfg.kind = "md"
  /\ answers' = [global |-> "retranslate-all", per |-> <<>>]
  /\ changedSet' = SetAddAll(changedSet, changedFiles)
  /\ pc' = "file"
  /\ UNCHANGED <<frozenSet, skippedSet>>
  /\ MdAskFrame

\* lines 221-223: askChangedKeysAction answers skip-all
MdAskSkipAll ==
  /\ pc = "ask"
  /\ cfg.kind = "md"
  /\ answers' = [global |-> "skip-all", per |-> <<>>]
  /\ skippedSet' = SetAddAll(skippedSet, changedFiles)
  /\ pc' = "file"
  /\ UNCHANGED <<frozenSet, changedSet>>
  /\ MdAskFrame

\* lines 225-250: askChangedKeysAction answers review, askPerKeyAction once per file
MdAskReview ==
  /\ pc = "ask"
  /\ cfg.kind = "md"
  /\ \E per \in [1..Len(changedFiles) -> PerKeyActions] :
       /\ answers' = [global |-> "review", per |-> per]
       /\ changedSet' = SetAddAll(changedSet, Answered(changedFiles, per, "retranslate"))
       /\ frozenSet' = SetAddAll(frozenSet, Answered(changedFiles, per, "freeze"))
       /\ skippedSet' = SetAddAll(skippedSet,
                                  SelectSeq(changedFiles, LAMBDA filePath :
                                    filePath \notin
                                      Range(Answered(changedFiles, per, "retranslate"))))
  /\ pc' = "file"
  /\ MdAskFrame

\* what the loop over the files of a locale leaves alone
MdLoopFrame ==
  UNCHANGED <<uvars, hvars, chunks, langDirExists, lockWrites, cfg, primaryExists, source, targets, lockFile, sourceKeys,
              changedKeys, frozenKeys, skippedKeys, lockValues, targetData, removed,
              missingKeys, keysToUpdate, allKeysToTranslate, batchKeys, batch,
              failed, results, mdSource, sourceFiles, previousHashes, frozenSet,
              changedFiles, changedSet, skippedSet, reported, answers, disk0>>

\* lines 257-276: the next source file of the locale: skipped, or protected and sent
MdNextFile ==
  /\ pc = "file"
  /\ cfg.kind = "md"
  /\ li <= Len(targetLocales)
  /\ i < Len(sourceFiles)
  /\ LET sourceFile == sourceFiles[i + 1]
         hasTarget == mdTargets[targetLocales[li]][sourceFile.relativePath].exists
         sourceChanged == sourceFile.relativePath \in Range(changedSet)
         shouldTranslate == cfg.forceRetranslate \/ ~hasTarget \/ sourceChanged
     IN IF \/ ~cfg.forceRetranslate /\ sourceFile.relativePath \in Range(frozenSet)
           \/ ~cfg.forceRetranslate /\ sourceFile.relativePath \in Range(skippedSet)
           \/ ~shouldTranslate
        THEN /\ i' = i + 1
             /\ UNCHANGED <<pc, retries, calls>>
        ELSE /\ pc' = "mdcall"
             /\ retries' = cfg.maxRetries
             /\ calls' = <<>>
             /\ UNCHANGED i
  /\ UNCHANGED <<li, translated, mdTargets, sent, slept, faults, received>>
  /\ MdLoopFrame

\* lines 253-256, 293-295: the locale's files are done
MdNextLocale ==
  /\ pc = "file"
  /\ cfg.kind = "md"
  /\ li <= Len(targetLocales)
  /\ i >= Len(sourceFiles)
  /\ li' = li + 1
  /\ i' = 0
  /\ translated' = 0
  /\ UNCHANGED <<pc, retries, calls, mdTargets, sent, slept, faults, received>>
  /\ MdLoopFrame

\* the oracle's translation of a protected document into a locale
Translate(text, locale) ==
  Doc(text.eol, [n \in 1..Len(text.parts) |->
                   IF text.parts[n].kind = "prose"
                   THEN [text.parts[n] EXCEPT !.lang = locale]
                   ELSE text.parts[n]])

MdInvocation(outcome, returned) ==
  [payload |-> <<Entry(<<"content">>, protectCodeBlocks(sourceFiles[i + 1].content).text)>>,
   locale |-> targetLocales[li], outcome |-> outcome, returned |-> returned,
   after |-> slept]

MdSending ==
  {[locale |-> targetLocales[li], key |-> sourceFiles[i + 1].relativePath,
    present |-> mdTargets[targetLocales[li]][sourceFiles[i + 1].relativePath].exists]}

\* lines 153-154, 283-290: the oracle returns; `fallback` when the response is empty
\* and the protected source itself is taken
MdOracleReturns ==
  /\ pc = "mdcall"
  /\ \E fallback \in {FALSE} \cup (IF MayFault THEN {TRUE} ELSE {}) :
       LET sourceFile == sourceFiles[i + 1]
           protected == protectCodeBlocks(sourceFile.content)
           translatedContent == IF fallback THEN protected.text
                                ELSE Translate(protected.text, targetLocales[li])
           safeContent == restoreCodeBlocks(translatedContent, protected.replacements)
       IN /\ mdTargets' = [mdTargets EXCEPT ![targetLocales[li]][sourceFile.relativePath] =
                             MdFile(safeContent)]
          /\ faults' = IF fallback THEN Faulted ELSE faults
  /\ sent' = sent \cup MdSending
  /\ received' = received \cup {[locale |-> targetLocales[li],
                                  key |-> sourceFiles[i + 1].relativePath]}
  /\ calls' = Append(calls, MdInvocation("ok", 1))
  /\ translated' = translated + 1
  /\ slept' = IF i < Len(sourceFiles) - 1 THEN BatchDelay ELSE 0
  /\ i' = i + 1
  /\ pc' = "file"
  /\ UNCHANGED <<li, retries>>
  /\ MdLoopFrame

\* translateMarkdownWithRetry, lines 155-168: provider.translateBatch throws; the
\* error that is thrown on is caught nowhere in syncMarkdownTranslations
MdOracleFails(isRateLimit) ==
  /\ pc = "mdcall"
  /\ MayFault
  /\ faults' = Faulted
  /\ sent' = sent \cup MdSending
  /\ calls' = Append(calls, MdInvocation(IF isRateLimit THEN "429" ELSE "error", 0))
  /\ IF shouldRetry(retries, isRateLimit)
     THEN /\ slept' = RetryDelay
          /\ retries' = retries - 1
          /\ UNCHANGED pc
     ELSE /\ slept' = 0
          /\ pc' = "crashed"
          /\ UNCHANGED retries
  /\ UNCHANGED <<li, i, translated, mdTargets, received>>
  /\ MdLoopFrame

MdOracleRateLimited == MdOracleFails(TRUE)

MdOracleThrows == MdOracleFails(FALSE)

\* lines 298-309: the md section of the lock file is saved
MdFinish ==
  /\ pc = "file"
  /\ cfg.kind = "md"
  /\ li > Len(targetLocales)
  /\ lockFile' = saveMarkdownLock(lockFile,
                                  nextValuesOf(sourceFiles, previousHashes, skippedSet),
                                  frozenSet)
  /\ lockWrites' = lockWrites + 1
  /\ pc' = "done"
  /\ UNCHANGED <<uvars, hvars, chunks, langDirExists, received, cfg, primaryExists, source, targets, sourceKeys,
                 changedKeys, frozenKeys, skippedKeys, lockValues, li, targetData, removed,
                 missingKeys, keysToUpdate, allKeysToTranslate, i, batchKeys, batch, retries,
                 translated, failed, results, mdSource, mdTargets, sourceFiles,
                 previousHashes, frozenSet, changedFiles, changedSet, skippedSet, sent,
                 calls, slept, reported, answers, faults, disk0>>

----------------------------------------------------------------------------
(* Inputs of the tree codec *)

MaxEntries == 3

Segs == {<<"a">>, <<"b">>, <<"a", "b">>}
NewVals == {Str("x"), Str(""), Num, Obj(<<>>)}

\* every tree that has one entry more than t, anywhere in t
RECURSIVE Extensions(_)
Extensions(t) ==
  {Append(t, Entry(k, v)) : k \in {s \in Segs : ~HasKey(t, s)}, v \in NewVals}
  \cup UNION {{[t EXCEPT ![n] = Entry(t[n].k, Obj(sub))] : sub \in Extensions(t[n].v.o)}
              : n \in {j \in 1..Len(t) : IsObject(t[j].v)}}

RECURSIVE TreesUpTo(_)
TreesUpTo(n) ==
  IF n = 0 THEN {<<>>}
  ELSE LET prev == TreesUpTo(n - 1)
       IN prev \cup UNION {Extensions(t) : t \in prev}

RECURSIVE SeqOf(_)
SeqOf(S) == IF S = {} THEN <<>> ELSE LET x == CHOOSE y \in S : TRUE IN <<x>> \o SeqOf(S \ {x})

\* the flattened keys of a tree, each with the leaf it names
RECURSIVE LeafPairs(_, _)
LeafPairs(obj, prefix) ==
  IF obj = <<>> THEN {}
  ELSE LET e == Head(obj)
       IN (IF IsObject(e.v) THEN LeafPairs(e.v.o, prefix \o e.k) ELSE {<<prefix \o e.k, e.v>>})
          \cup LeafPairs(Tail(obj), prefix)


----------------------------------------------------------------------------
(* The projects a run starts from *)

A == <<"a">>
B == <<"b">>
BA == <<"b", "a">>

\* { a: "v1", b: { a: "v2" } }
SourceNested == <<Entry(A, Str("v1")), Entry(B, Obj(<<Entry(A, Str("v2"))>>))>>
\* { b: { a: "v2", b: "" }, a: "v1" }
SourceWithEmpty ==
  <<Entry(B, Obj(<<Entry(A, Str("v2")), Entry(B, Str(""))>>)), Entry(A, Str("v1"))>>

SourceTrees == {SourceNested, SourceWithEmpty}

TargetFilesRu ==
  { NoTargetFile,
    \* { a: "x" }
    TargetFile(<<Entry(A, Str("x"))>>),
    \* { z: "x", b: { a: "x", b: "x" }, a: "x" }
    TargetFile(<<Entry(<<"z">>, Str("x")),
                 Entry(B, Obj(<<Entry(A, Str("x")), Entry(B, Str("x"))>>)),
                 Entry(A, Str("x"))>>),
    \* { "b.a": "x", a: 1 }
    TargetFile(<<Entry(BA, Str("x")), Entry(A, Num)>>) }

TargetFilesDe ==
  { NoTargetFile,
    \* { a: "x", b: { a: "x" } }
    TargetFile(<<Entry(A, Str("x")), Entry(B, Obj(<<Entry(A, Str("x"))>>))>>) }

MdSample == Section(<<>>, <<>>)

LockFiles ==
  { NoLockFile,
    LockFile(NoSection, MdSample),
    \* nothing changed since the snapshot
    LockFile(Section(<<>>, <<Entry(A, Str("v1")), Entry(BA, Str("v2"))>>), NoSection),
    \* a and b.a changed
    LockFile(Section(<<>>, <<Entry(A, Str("old")), Entry(BA, Str("old"))>>), MdSample),
    \* a and b.a changed, a frozen
    LockFile(Section(<<A>>, <<Entry(A, Str("old")), Entry(BA, Str("old"))>>), MdSample),
    \* a changed and frozen, b.a has no snapshot
    LockFile(Section(<<A>>, <<Entry(A, Str("old"))>>), NoSection) }

Configs ==
  [kind : {"json"}, trackChanges : {"off", "on", "carefully"}, forceRetranslate : BOOLEAN,
   batchSize : {1, MaxBatchSize}, maxRetries : {0, MaxRetries}]
  \cup [kind : {"md"}, trackChanges : {"off", "on", "carefully"},
        forceRetranslate : BOOLEAN, batchSize : {1}, maxRetries : {0, MaxRetries}]

X == <<"x.md">>
Y == <<"y.md">>
MdPaths == {X, Y}

\* the second code block is a shell script that prints its process id, $$
DocX == Doc("lf", <<Prose(<<"p1">>), Code(<<"k1">>), Prose(<<"p2">>), Code(<<"echo ", "$$">>)>>)
DocY == Doc("crlf", <<Prose(<<"p3">>)>>)
DocOld == Doc("lf", <<Prose(<<"p0">>)>>)

MdSources == {<<[relativePath |-> X, content |-> DocX], [relativePath |-> Y, content |-> DocY]>>}

NoMdFiles == [path \in MdPaths |-> NoMdFile]
SomeTranslation == MdFile(Doc("lf", <<Prose(<<"x">>)>>))

MdTargetsRu == {NoMdFiles, [NoMdFiles EXCEPT ![X] = SomeTranslation],
                [path \in MdPaths |-> SomeTranslation]}
MdTargetsDe == {NoMdFiles, [path \in MdPaths |-> SomeTranslation]}

JsonSample == Section(<<A>>, <<Entry(A, Str("v1"))>>)

MdLockFiles ==
  { NoLockFile,
    LockFile(JsonSample, NoSection),
    \* nothing changed since the snapshot
    LockFile(NoSection, Section(<<>>, <<Entry(X, contentHash(DocX)),
                                        Entry(Y, contentHash(DocY))>>)),
    \* x.md and y.md changed
    LockFile(JsonSample, Section(<<>>, <<Entry(X, contentHash(DocOld)),
                                         Entry(Y, contentHash(DocOld))>>)),
    \* x.md and y.md changed, x.md frozen
    LockFile(JsonSample, Section(<<X>>, <<Entry(X, contentHash(DocOld)),
                                          Entry(Y, contentHash(DocOld))>>)),
    \* x.md frozen and without a snapshot, y.md changed
    LockFile(NoSection, Section(<<X>>, <<Entry(Y, contentHash(DocOld))>>)) }

\* a tree run that is forced or does not track changes never loads the json section
\* of the lock file: it only keeps the rest of the file when it saves
LockFilesFor(c) ==
  IF c.kind = "json" /\ (c.forceRetranslate \/ c.trackChanges = "off")
  THEN {NoLockFile, LockFile(Section(<<A>>, <<Entry(A, Str("old")), Entry(BA, Str("old"))>>),
                             MdSample)}
  ELSE IF c.kind = "json" THEN LockFiles ELSE MdLockFiles

NoConfig ==
  [kind |-> "none", trackChanges |-> "off", forceRetranslate |-> FALSE, batchSize |-> 1,
   maxRetries |-> 0]

\* no run has come before
NoRun == [cfg |-> NoConfig, pc |-> "none", sent |-> {}, received |-> {}, faults |-> 0]

----------------------------------------------------------------------------
(* Specifications *)

vars == <<svars, uvars>>

UtilIdle ==
  /\ uPc = "off"
  /\ uTarget = <<>>
  /\ uKeys = <<>>
  /\ uOut = <<>>
  /\ uCount = 0
  /\ uSource = <<>>
  /\ uKey = <<>>

\* nothing of the run has happened yet
RunMemoryInit ==
  /\ sourceKeys = <<>>
  /\ changedKeys = <<>>
  /\ frozenKeys = <<>>
  /\ skippedKeys = <<>>
  /\ lockValues = <<>>
  /\ li = 1
  /\ targetData = <<>>
  /\ removed = 0
  /\ missingKeys = <<>>
  /\ keysToUpdate = <<>>
  /\ allKeysToTranslate = <<>>
  /\ i = 0
  /\ batchKeys = <<>>
  /\ batch = <<>>
  /\ retries = 0
  /\ translated = 0
  /\ failed = 0
  /\ results = <<>>
  /\ sourceFiles = <<>>
  /\ previousHashes = <<>>
  /\ frozenSet = <<>>
  /\ changedFiles = <<>>
  /\ changedSet = <<>>
  /\ skippedSet = <<>>
  /\ sent = {}
  /\ calls = <<>>
  /\ slept = 0
  /\ reported = {}
  /\ answers = NoAnswers
  /\ faults = 0
  /\ disk0 = Disk
  /\ received = {}
  /\ lockWrites = 0
  /\ chunks = <<>>

Init ==
  /\ UtilIdle
  /\ pc = "idle"
  /\ cfg \in Configs
  /\ primaryExists \in BOOLEAN
  /\ run = "first"
  /\ prevRun = NoRun
  /\ \/ /\ cfg.kind = "json"
        /\ source \in SourceTrees
        /\ targets \in [{"ru", "de"} -> TargetFilesRu \cup TargetFilesDe]
        /\ targets["ru"] \in TargetFilesRu
        /\ targets["de"] \in TargetFilesDe
        \* the primary locale file and the targets are files of the locales directory
        /\ langDirExists \in (IF primaryExists \/ targets["ru"].exists \/ targets["de"].exists
                              THEN {TRUE} ELSE BOOLEAN)
        /\ mdSource = <<>>
        /\ mdTargets = [l \in {"ru", "de"} |-> NoMdFiles]
     \/ /\ cfg.kind = "md"
        /\ langDirExists = FALSE
        /\ source = <<>>
        /\ targets = [l \in {"ru", "de"} |-> NoTargetFile]
        /\ mdSource \in MdSources
        /\ mdTargets \in [{"ru", "de"} -> MdTargetsRu \cup MdTargetsDe]
        /\ mdTargets["ru"] \in MdTargetsRu
        /\ mdTargets["de"] \in MdTargetsDe
  /\ lockFile \in LockFilesFor(cfg)
  /\ RunMemoryInit

Next ==
  \/ SyncStart
  \/ AskRetranslateAll
  \/ AskSkipAll
  \/ AskReview
  \/ BeginLocale
  \/ BuildBatch
  \/ OracleReturns
  \/ OracleRateLimited
  \/ OracleThrows
  \/ EndLocale
  \/ FinishSync
  \/ MdStart
  \/ MdAskRetranslateAll
  \/ MdAskSkipAll
  \/ MdAskReview
  \/ MdNextFile
  \/ MdNextLocale
  \/ MdOracleReturns
  \/ MdOracleRateLimited
  \/ MdOracleThrows
  \/ MdFinish

Spec == Init /\ [][Next]_vars

UtilInit ==
  /\ uPc = "input"
  /\ uTarget \in TreesUpTo(MaxEntries)
  /\ uKeys \in {SeqOf(S) : S \in SUBSET Range(extractKeys(uTarget, <<>>))}
  /\ uOut = <<>>
  /\ uCount = 0
  /\ uSource = <<>>
  /\ uKey = <<>>
  /\ pc = "off"
  /\ cfg = NoConfig
  /\ primaryExists = FALSE
  /\ langDirExists = FALSE
  /\ run = "first"
  /\ prevRun = NoRun
  /\ source = <<>>
  /\ targets = [l \in {"ru", "de"} |-> NoTargetFile]
  /\ mdSource = <<>>
  /\ mdTargets = [l \in {"ru", "de"} |-> NoMdFiles]
  /\ lockFile = NoLockFile
  /\ RunMemoryInit

UtilRemoveObsoleteKeys ==
  /\ uPc = "input"
  /\ LET r == removeObsoleteKeys(uTarget, uKeys)
     IN /\ uOut' = r.data
        /\ uCount' = r.removed
  /\ uPc' = "removeObsoleteKeys"
  /\ UNCHANGED <<uTarget, uKeys, uSource, uKey, svars>>

UtilNext == UtilRemoveObsoleteKeys

SpecUtil == UtilInit /\ [][UtilNext]_vars

\* The other operations of the tree codec, each applied to a target tree of the
\* input set
CodecInit ==
  /\ UtilInit
  /\ uKeys = <<>>

\* the source trees a target is reordered to: the sources of the runs and
\* { a: { b: "v", a: "v" }, b: "v" }
ReorderSources ==
  SourceTrees \cup
  {<<Entry(A, Obj(<<Entry(B, Str("v")), Entry(A, Str("v"))>>)), Entry(B, Str("v"))>>}

UtilReorderToMatchSource ==
  /\ uPc = "input"
  /\ \E sourceTree \in ReorderSources :
       /\ uSource' = sourceTree
       /\ uOut' = reorderToMatchSource(sourceTree, uTarget)
  /\ uPc' = "reorderToMatchSource"
  /\ UNCHANGED <<uTarget, uKeys, uCount, uKey, svars>>

\* the leaves of a tree in the order extractKeys lists their keys
RECURSIVE extractLeaves(_)
extractLeaves(obj) ==
  IF obj = <<>> THEN <<>>
  ELSE LET e == Head(obj)
       IN (IF IsObject(e.v) THEN extractLeaves(e.v.o) ELSE <<e.v>>)
          \o extractLeaves(Tail(obj))

\* setNestedValue(obj, keys[n], values[n]) for each n in turn
RECURSIVE setAll(_, _, _)
setAll(obj, keys, values) ==
  IF keys = <<>> THEN obj
  ELSE setAll(setNestedValue(obj, Head(keys), Head(values)), Tail(keys), Tail(values))

\* extractKeys of the target, then each of its keys set into an empty tree
UtilRoundTrip ==
  /\ uPc = "input"
  /\ uKeys' = extractKeys(uTarget, <<>>)
  /\ uOut' = setAll(<<>>, extractKeys(uTarget, <<>>), extractLeaves(uTarget))
  /\ uPc' = "setNestedValue"
  /\ UNCHANGED <<uTarget, uCount, uSource, uKey, svars>>

\* the keys deleteNestedKey is called with: the keys of the target and keys it has not
DeleteKeys(targetTree) == Range(extractKeys(targetTree, <<>>)) \cup {A, BA, <<"b", "b", "a">>}

UtilDeleteNestedKey ==
  /\ uPc = "input"
  /\ \E key \in DeleteKeys(uTarget) :
       /\ uKey' = key
       /\ uOut' = deleteNestedKey(uTarget, key)
  /\ uPc' = "deleteNestedKey"
  /\ UNCHANGED <<uTarget, uKeys, uCount, uSource, svars>>

CodecNext ==
  \/ UtilReorderToMatchSource
  \/ UtilRoundTrip
  \/ UtilDeleteNestedKey

SpecCodec == CodecInit /\ [][CodecNext]_vars

\* The tree run on its own, taken to its end: a first run that tracks nothing.  The
\* run is one sequential program and the oracle answers every call, by returning or
\* by throwing, so a step that can be taken is taken.
TreeInit ==
  /\ Init
  /\ cfg.kind = "json"
  /\ cfg.trackChanges = "off"
  /\ ~cfg.forceRetranslate
  /\ primaryExists
  /\ lockFile = NoLockFile

TreeNext ==
  \/ SyncStart
  \/ BeginLocale
  \/ BuildBatch
  \/ OracleReturns
  \/ OracleRateLimited
  \/ OracleThrows
  \/ EndLocale
  \/ FinishSync

SpecTreeFair == TreeInit /\ [][TreeNext]_vars /\ WF_vars(TreeNext)

\* Every run taken to its end, with every batchSize a configuration file can give
\* from 0 on: the run is one sequential program, the oracle answers every call, by
\* returning or by throwing, every sleep ends and the operator answers every prompt,
\* so a step that can be taken is taken.
TermConfigs ==
  [kind : {"json"}, trackChanges : {"off", "on", "carefully"}, forceRetranslate : BOOLEAN,
   batchSize : 0..MaxBatchSize, maxRetries : {MaxRetries}]
  \cup [kind : {"md"}, trackChanges : {"off", "on", "carefully"},
        forceRetranslate : BOOLEAN, batchSize : {1}, maxRetries : {MaxRetries}]

TermInit ==
  /\ UtilIdle
  /\ pc = "idle"
  /\ cfg \in TermConfigs
  /\ primaryExists \in BOOLEAN
  /\ langDirExists = TRUE
  /\ run = "first"
  /\ prevRun = NoRun
  /\ \/ /\ cfg.kind = "json"
        /\ source = SourceNested
        /\ targets \in [{"ru", "de"} -> {NoTargetFile} \cup TargetFilesDe]
        /\ targets["ru"] = NoTargetFile
        /\ targets["de"] \in TargetFilesDe
        /\ mdSource = <<>>
        /\ mdTargets = [l \in {"ru", "de"} |-> NoMdFiles]
     \/ /\ cfg.kind = "md"
        /\ source = <<>>
        /\ targets = [l \in {"ru", "de"} |-> NoTargetFile]
        /\ mdSource \in MdSources
        /\ mdTargets \in [{"ru", "de"} -> {NoMdFiles} \cup MdTargetsDe]
        /\ mdTargets["ru"] = NoMdFiles
        /\ mdTargets["de"] \in MdTargetsDe
  /\ lockFile \in LockFilesFor(cfg)
  /\ RunMemoryInit

SpecTerminates == TermInit /\ [][Next]_vars /\ WF_vars(Next)

\* The sync run twice on one project that has a locale tree and markdown documents:
\* each run is a tree run or a markdown run, not forced, with tracking off or on.
RunConfigs ==
  {c \in Configs : /\ ~c.forceRetranslate
                   /\ c.trackChanges \in {"off", "on"}
                   /\ c.batchSize = (IF c.kind = "json" THEN MaxBatchSize ELSE 1)
                   /\ c.maxRetries = 0}

RunLockFiles ==
  { NoLockFile,
    \* a, b.a, x.md and y.md changed since the snapshot
    LockFile(Section(<<>>, <<Entry(A, Str("old")), Entry(BA, Str("old"))>>),
             Section(<<>>, <<Entry(X, contentHash(DocOld)), Entry(Y, contentHash(DocOld))>>)) }

RunsInit ==
  /\ UtilIdle
  /\ pc = "idle"
  /\ cfg \in RunConfigs
  /\ primaryExists = TRUE
  /\ langDirExists = TRUE
  /\ run = "first"
  /\ prevRun = NoRun
  /\ source \in SourceTrees
  /\ targets \in [{"ru", "de"} -> {NoTargetFile, TargetFile(<<Entry(A, Str("x"))>>)}
                                    \cup TargetFilesDe]
  /\ targets["ru"] \in {NoTargetFile, TargetFile(<<Entry(A, Str("x"))>>)}
  /\ targets["de"] \in TargetFilesDe
  /\ mdSource \in MdSources
  /\ mdTargets \in [{"ru", "de"} -> MdTargetsRu]
  /\ mdTargets["ru"] \in {NoMdFiles, [NoMdFiles EXCEPT ![X] = SomeTranslation]}
  /\ mdTargets["de"] = [path \in MdPaths |-> SomeTranslation]
  /\ lockFile \in RunLockFiles
  /\ RunMemoryInit

\* index.ts, run: the sync is started again on the project as the run before left it
NextRun ==
  /\ pc \in {"done", "crashed"}
  /\ run = "first"
  /\ run' = "second"
  /\ prevRun' = [cfg |-> cfg, pc |-> pc, sent |-> sent, received |-> received,
                 faults |-> faults]
  /\ cfg' \in RunConfigs
  /\ pc' = "idle"
  /\ disk0' = Disk
  /\ sourceKeys' = <<>>
  /\ changedKeys' = <<>>
  /\ frozenKeys' = <<>>
  /\ skippedKeys' = <<>>
  /\ lockValues' = <<>>
  /\ li' = 1
  /\ targetData' = <<>>
  /\ removed' = 0
  /\ missingKeys' = <<>>
  /\ keysToUpdate' = <<>>
  /\ allKeysToTranslate' = <<>>
  /\ i' = 0
  /\ batchKeys' = <<>>
  /\ batch' = <<>>
  /\ retries' = 0
  /\ translated' = 0
  /\ failed' = 0
  /\ results' = <<>>
  /\ sourceFiles' = <<>>
  /\ previousHashes' = <<>>
  /\ frozenSet' = <<>>
  /\ changedFiles' = <<>>
  /\ changedSet' = <<>>
  /\ skippedSet' = <<>>
  /\ sent' = {}
  /\ received' = {}
  /\ calls' = <<>>
  /\ slept' = 0
  /\ reported' = {}
  /\ answers' = NoAnswers
  /\ lockWrites' = 0
  /\ chunks' = <<>>
  /\ UNCHANGED <<uvars, primaryExists, langDirExists, source, targets, lockFile, mdSource,
                 mdTargets, faults>>

RunsNext ==
  \/ SyncStart
  \/ BeginLocale
  \/ BuildBatch
  \/ OracleReturns
  \/ OracleRateLimited
  \/ OracleThrows
  \/ EndLocale
  \/ FinishSync
  \/ MdStart
  \/ MdNextFile
  \/ MdNextLocale
  \/ MdOracleReturns
  \/ MdOracleRateLimited
  \/ MdOracleThrows
  \/ MdFinish
  \/ NextRun

SpecRuns == RunsInit /\ [][RunsNext]_vars

----------------------------------------------------------------------------
(* Properties *)

\* the run has loaded its source and its lock section
Started == pc \notin {"idle", "aborted", "off"}
Completed == pc = "done"

\* the lock section of the run's content kind as it was when the run started
Snapshot0 ==
  IF cfg.kind = "json" THEN loadLockFile(disk0.lockFile) ELSE loadMarkdownLock(disk0.lockFile)

\* the source units: dot-path keys of the tree, relative paths of the documents
Units ==
  IF cfg.kind = "json" THEN Range(extractKeys(source, <<>>))
  ELSE {mdSource[n].relativePath : n \in 1..Len(mdSource)}

CurrentValue(u) ==
  IF cfg.kind = "json" THEN getNestedValue(source, u)
  ELSE contentHash(mdSource[CHOOSE n \in 1..Len(mdSource) : mdSource[n].relativePath = u].content)

\* the unit has a snapshot entry and its source value is another one now
Drifted(u) == HasKey(Snapshot0.values, u) /\ Lookup(Snapshot0.values, u) # CurrentValue(u)

PresentAtStart(locale, u) ==
  IF cfg.kind = "json"
  THEN disk0.targets[locale].exists /\ present(disk0.targets[locale].data, u)
  ELSE disk0.mdTargets[locale][u].exists

SentTo(locale) == {s.key : s \in {t \in sent : t.locale = locale}}

PersistedSection == IF cfg.kind = "json" THEN lockFile.json ELSE lockFile.md

\* the changed units in the order change detection listed them
ChangedList ==
  IF cfg.kind = "json"
  THEN SelectSeq(extractKeys(source, <<>>), LAMBDA key : key \in reported)
  ELSE changedFiles

\* the units the operator answered skip for: all of them, or one by one in review
SkipAnswered ==
  IF answers.global = "skip-all" THEN reported
  ELSE IF answers.global = "review"
       THEN {ChangedList[n] : n \in {m \in 1..Len(ChangedList) : answers.per[m] = "skip"}}
       ELSE {}

\* C1: without forceRetranslate and with tracking on or carefully, a unit of the frozen
\* set loaded from the lock file is never reported as changed and never sent to the
\* oracle as a retranslation of an existing target value, whatever its drift.
C1_FrozenNeverChanged ==
  (Started /\ ~cfg.forceRetranslate /\ trackingEnabled) =>
    \A u \in Range(Snapshot0.frozen) :
      /\ u \notin reported
      /\ \A s \in sent : ~(s.key = u /\ s.present)

\* a finished tracked run in which a frozen unit has drifted and is present in a target
C1_Witness ==
  /\ Completed /\ ~cfg.forceRetranslate /\ trackingEnabled
  /\ \E u \in Range(Snapshot0.frozen) \cap Units :
       /\ Drifted(u)
       /\ \E locale \in Range(targetLocales) : PresentAtStart(locale, u)
  /\ sent # {}

\* C2: a completed run with forceRetranslate persists an empty frozen set for its
\* content kind, and every unit present in a target at the start of the locale's
\* processing was sent to the oracle for that locale, whatever the tracking mode and
\* the frozen set persisted before.
C2_ForceClearsFrozenSendsAll ==
  (Completed /\ cfg.forceRetranslate) =>
    /\ PersistedSection.frozen = <<>>
    /\ \A locale \in Range(targetLocales) :
         \A u \in Units : PresentAtStart(locale, u) => u \in SentTo(locale)

\* C3: in carefully mode the snapshot value persisted for a unit the operator skipped
\* (skip-all, or skip in review) is the snapshot value loaded at the start, not the
\* current source value, so the same source reports the unit as changed again.
C3_SkippedKeepsSnapshot ==
  (Completed /\ cfg.trackChanges = "carefully") =>
    \A u \in SkipAnswered :
      /\ Lookup(PersistedSection.values, u) = Lookup(Snapshot0.values, u)
      /\ Lookup(PersistedSection.values, u) # CurrentValue(u)
      /\ u \notin Range(PersistedSection.frozen)

\* a finished carefully run in which the operator skipped a unit in review and had
\* another retranslated
C3_Witness ==
  /\ Completed /\ cfg.trackChanges = "carefully"
  /\ answers.global = "review"
  /\ SkipAnswered # {}
  /\ SkipAnswered # reported

\* C4: the changed set that change detection computes is exactly the source units
\* that have a snapshot entry, whose source value differs from it and that are not
\* frozen; a unit without a snapshot entry is never in it.  (The tree run detects
\* changes when it tracks them and is not forced; the markdown run always does, with
\* the frozen set cleared when forced.)
C4_ChangedSetExact ==
  (Started /\ (cfg.kind = "md" \/ (trackingEnabled /\ ~cfg.forceRetranslate))) =>
    LET frozen == IF cfg.forceRetranslate THEN {} ELSE Range(Snapshot0.frozen)
    IN /\ reported = {u \in Units : Drifted(u) /\ u \notin frozen}
       /\ \A u \in reported : HasKey(Snapshot0.values, u)

\* change detection has reported a unit, left out a frozen one that drifted and left
\* out one that has no snapshot entry
C4_Witness ==
  /\ Completed /\ ~cfg.forceRetranslate /\ trackingEnabled
  /\ reported # {}
  /\ \E u \in Range(Snapshot0.frozen) \cap Units : Drifted(u)
  /\ \E u \in Units : ~HasKey(Snapshot0.values, u)

\* C5: with tracking off and no forceRetranslate, the units sent to the oracle for a
\* locale are exactly the units missing from the locale's target: a present unit is
\* never sent and nothing is sent when nothing is missing.
C5_OffSendsExactlyMissing ==
  (Completed /\ cfg.trackChanges = "off" /\ ~cfg.forceRetranslate) =>
    \A locale \in Range(targetLocales) :
      SentTo(locale) = {u \in Units : ~PresentAtStart(locale, u)}

\* C6: for one chunk the oracle is invoked at most maxRetries + 1 times, each time with
\* the same payload and locale; an invocation after the first comes only after a
\* failure whose message has 429 and a sleep of retryDelay; one such failure followed
\* by success is exactly 2 invocations and what the oracle returned is counted as
\* translated.
C6_BoundedRetry ==
  [][calls' # calls /\ calls' # <<>> =>
       LET n == Len(calls')
       IN /\ n <= cfg.maxRetries + 1
          /\ n > 1 => /\ calls'[n].payload = calls'[1].payload
                      /\ calls'[n].locale = calls'[1].locale
                      /\ calls'[n - 1].outcome = "429"
                      /\ calls'[n].after = RetryDelay
          /\ calls'[n].outcome = "ok" =>
               /\ translated' = translated + calls'[n].returned
               /\ pc' \notin {"call", "mdcall"}]_vars

\* the oracle failed once with a rate limit and then returned the chunk
C6_Witness ==
  /\ Len(calls) = 2
  /\ calls[1].outcome = "429"
  /\ calls[2].outcome = "ok"
  /\ calls[2].returned > 0
  /\ translated >= calls[2].returned

\* the oracle call of the current chunk has just failed for good
ChunkFails ==
  /\ pc = "call"
  /\ pc' # "call"
  /\ calls' # calls
  /\ calls'[Len(calls')].outcome # "ok"

\* C7: in tree sync a chunk whose oracle call fails with another error than a rate
\* limit, or with its retries exhausted, is not sent again, none of its units is
\* written to the target, failed grows by the size of the chunk, and the run goes on
\* with the later chunks and locales: it returns one stats entry per target locale.
C7_ChunkFailureIsLocal ==
  /\ [][ChunkFails =>
          /\ targetData' = targetData
          /\ targets' = targets
          /\ failed' = failed + Len(batchKeys)
          /\ translated' = translated
          /\ i' = i + cfg.batchSize
          /\ pc' = "chunk"]_vars
  /\ [](cfg.kind = "json" /\ Started =>
          /\ pc # "crashed"
          /\ Len(results) = li - 1
          /\ \A n \in 1..Len(results) : results[n].locale = targetLocales[n]
          /\ Completed => Len(results) = Len(targetLocales))
  /\ (cfg.kind = "json" /\ failed > 0) ~> (Completed /\ Len(results) = Len(targetLocales))

\* a finished tree run in which a chunk of two units failed in the first locale and the
\* second locale had units translated after that
C7_Witness ==
  /\ Completed /\ cfg.kind = "json"
  /\ Len(results) = Len(targetLocales)
  /\ results[1].failed = 2
  /\ results[2].translated > 0

\* the oracle call for the current markdown file has just failed for good
MdFileFails ==
  /\ pc = "mdcall"
  /\ pc' # "mdcall"
  /\ calls' # calls
  /\ calls'[Len(calls')].outcome # "ok"

\* C8: in markdown sync an oracle failure for one file is fatal for that file only:
\* the run goes on with the next source file of the locale, and so with the other
\* locales and with the lock snapshot at the end.
C8_MdFailureIsLocal ==
  [][MdFileFails => /\ pc' = "file"
                    /\ i' = i + 1
                    /\ li' = li]_vars

\* the locales of a tree run whose target file the run has written
Processed == IF cfg.kind = "json" /\ Started THEN {targetLocales[n] : n \in 1..(li - 1)} ELSE {}

\* C9: the tree written to a locale's target file has only dot-path keys of the source
\* tree, in the source's key order at every nesting level, whatever the target held
\* before and whatever the oracle returned.
C9_TargetMirrorsSource ==
  \A locale \in Processed :
    LET written == extractKeys(targets[locale].data, <<>>)
    IN written = SelectSeq(extractKeys(source, <<>>), LAMBDA key : key \in Range(written))

\* C10: removeObsoleteKeys leaves exactly the original flattened keys that are in
\* the source key set, values unchanged, and returns the number of original target
\* keys that are not in the source key set.
C10_RemoveObsoleteExact ==
  uPc = "removeObsoleteKeys" =>
    /\ LeafPairs(uOut, <<>>) = {p \in LeafPairs(uTarget, <<>>) : p[1] \in Range(uKeys)}
    /\ uCount = Cardinality({p \in LeafPairs(uTarget, <<>>) : p[1] \notin Range(uKeys)})

\* the sync has been started again, with the configuration of the run before, after
\* that run finished
SameRunAgain == run = "second" /\ prevRun.pc = "done" /\ prevRun.cfg = cfg

\* C11: the second of two runs in a row with the same source, tracking off and no
\* forceRetranslate, on the targets the first run left, invokes the oracle not once
\* and leaves every target file with the content it had (the oracle has answered
\* every call of the first run as asked).
C11_SecondRunIdle ==
  (SameRunAgain /\ cfg.trackChanges = "off" /\ ~cfg.forceRetranslate
     /\ prevRun.faults = 0 /\ faults = 0) =>
    /\ pc \notin {"call", "mdcall"}
    /\ calls = <<>>
    /\ sent = {}
    /\ targets = disk0.targets
    /\ mdTargets = disk0.mdTargets

\* the markdown target files the run has written so far
MdWritten ==
  {w \in Range(targetLocales) \X Units :
     cfg.kind = "md" /\ mdTargets[w[1]][w[2]] # disk0.mdTargets[w[1]][w[2]]}

SourceDoc(u) == mdSource[CHOOSE n \in 1..Len(mdSource) : mdSource[n].relativePath = u].content

\* C12: in markdown sync the oracle never receives the text of a fenced code block:
\* every code block of the source is a placeholder token of its own in the payload;
\* a target written from an oracle output that keeps the tokens has every code block
\* of the source, unchanged, at its place; and restoring the protected text as it is
\* yields the source document.
C12_CodeBlocksVerbatim ==
  (cfg.kind = "md" /\ Started) =>
    /\ \A n \in 1..Len(calls) :
         LET text == calls[n].payload[1].v.parts
         IN /\ \A m \in 1..Len(text) : text[m].kind # "code"
            /\ \A m1, m2 \in 1..Len(text) :
                 (text[m1].kind = "token" /\ text[m2].kind = "token" /\ m1 # m2)
                   => text[m1].n # text[m2].n
    /\ \A w \in MdWritten :
         LET src == SourceDoc(w[2]).parts
             out == mdTargets[w[1]][w[2]].content.parts
         IN /\ Len(out) = Len(src)
            /\ \A m \in 1..Len(src) : src[m].kind = "code" => out[m] = src[m]
    /\ \A u \in Units :
         LET protected == protectCodeBlocks(SourceDoc(u))
         IN restoreCodeBlocks(protected.text, protected.replacements) = SourceDoc(u)

\* the run writes the lock file at its end: a markdown run always, a tree run when it
\* tracks changes or is forced (sync.ts, line 488)
SavesLock == cfg.kind = "md" \/ trackingEnabled \/ cfg.forceRetranslate

\* every target locale has been processed
AllLocalesProcessed ==
  /\ li > Len(targetLocales)
  /\ cfg.kind = "json" => Len(results) = Len(targetLocales)

\* C13 as stated: every completed run, in every tracking mode, has written the lock
\* file exactly once, after every target locale was processed, and at every earlier
\* point of a run, a crash included, the lock file on disk is as it was at the start.
C13_LockWrittenOnce ==
  Started =>
    /\ Completed => (lockWrites = 1 /\ AllLocalesProcessed)
    /\ ~Completed => (lockWrites = 0 /\ lockFile = disk0.lockFile)

\* C13, amended: a run writes the lock file at most once and only as its last step,
\* after every target locale was processed: exactly once in a completed markdown run
\* and in a completed tree run that tracks changes (on, carefully) or is forced, and
\* never in a tree run with tracking off and no forceRetranslate; at every earlier
\* point of a run, a crash included, the lock file on disk is as it was at the start.
C13_LockWrittenAtEnd ==
  Started =>
    /\ Completed => /\ lockWrites = (IF SavesLock THEN 1 ELSE 0)
                    /\ AllLocalesProcessed
                    /\ ~SavesLock => lockFile = disk0.lockFile
    /\ ~Completed => (lockWrites = 0 /\ lockFile = disk0.lockFile)

\* a markdown run has crashed in its second locale after it wrote targets of the first,
\* with source files that differ from the snapshot on disk
C13_Witness ==
  /\ pc = "crashed"
  /\ li = 2
  /\ mdTargets["ru"] # disk0.mdTargets["ru"]
  /\ \E u \in Units : Drifted(u)
  /\ lockFile = disk0.lockFile

\* the section of the lock file that belongs to the other content kind than the run's
OtherSection(lf) == IF cfg.kind = "json" THEN lf.md ELSE lf.json

\* C14: a run that saves the lock section of its content kind leaves the section of
\* the other kind, values and frozen list, as it was on disk, in a tree run after a
\* markdown run and in a markdown run after a tree run alike.
C14_OtherSectionSurvives ==
  Started =>
    /\ OtherSection(lockFile) = OtherSection(disk0.lockFile)
    /\ lockWrites > 0 => (lockFile.exists /\ PersistedSection.present)

\* a markdown run has saved its section into the lock file that the tree run before
\* it had saved its section into
C14_Witness ==
  /\ run = "second" /\ Completed
  /\ cfg.kind = "md" /\ prevRun.cfg.kind = "json" /\ prevRun.pc = "done"
  /\ prevRun.cfg.trackChanges = "on"
  /\ lockWrites = 1
  /\ lockFile.md # disk0.lockFile.md
  /\ lockFile.json.values # <<>>

\* the run tracks changes and the snapshot of its content kind on disk is empty or absent
FirstRun == trackingEnabled /\ Snapshot0.values = <<>>

\* C15: with tracking on or carefully and an empty or absent snapshot for the content
\* kind, the run reports no changed unit, never asks the operator, ends in no error
\* (it stops early only when the oracle fails for a markdown file) and at its end
\* persists a snapshot that maps every source unit to its current source value.
C15_FirstRunPopulates ==
  (Started /\ FirstRun) =>
    /\ reported = {}
    /\ pc # "ask"
    /\ answers = NoAnswers
    /\ pc = "crashed" => (calls # <<>> /\ calls[Len(calls)].outcome # "ok")
    /\ Completed =>
         /\ {PersistedSection.values[n].k : n \in 1..Len(PersistedSection.values)} = Units
         /\ Len(PersistedSection.values) = Cardinality(Units)
         /\ \A u \in Units : Lookup(PersistedSection.values, u) = CurrentValue(u)

\* a finished first run in carefully mode, without a lock file, that had units translated
C15_Witness ==
  /\ Completed /\ FirstRun
  /\ cfg.trackChanges = "carefully"
  /\ ~disk0.lockFile.exists
  /\ sent # {}
  /\ PersistedSection.values # <<>>

\* C16: when the primary source file (tree) or directory (markdown) is missing, the
\* run aborts before any write to the file system, any oracle invocation and any
\* prompt: nothing on disk, directories included, is created or changed.
C16_AbortWritesNothing ==
  (~primaryExists /\ pc # "off") =>
    /\ pc \in {"idle", "aborted"}
    /\ Disk = disk0
    /\ lockWrites = 0
    /\ sent = {}
    /\ calls = <<>>
    /\ answers = NoAnswers

\* the units that were sent to the oracle for a locale and that no response for the
\* locale returned: left out of the response, or in a chunk that failed
Lost(sentUnits, receivedUnits) ==
  {s \in sentUnits : [locale |-> s.locale, key |-> s.key] \notin receivedUnits}

ValueAt(files, locale, u) ==
  IF files[locale].exists THEN getNestedValue(files[locale].data, u) ELSE Undefined

\* C17: in tree sync a unit that was sent to the oracle for a locale and not returned
\* is not written to that locale's target in the run, does not advance the persisted
\* snapshot, and is sent again for that locale by the next run with the same source and
\* configuration, whether it was sent as missing or as changed.
C17_LostUnitsRetried ==
  /\ (cfg.kind = "json" /\ Completed) =>
       \A s \in Lost(sent, received) :
         /\ ValueAt(targets, s.locale, s.key) = ValueAt(disk0.targets, s.locale, s.key)
         /\ lockWrites > 0 =>
              Lookup(PersistedSection.values, s.key) = Lookup(Snapshot0.values, s.key)
  /\ (cfg.kind = "json" /\ SameRunAgain /\ Completed) =>
       \A s \in Lost(prevRun.sent, prevRun.received) : s.key \in SentTo(s.locale)

\* C18: in a completed markdown run, for every locale and source file, the target was
\* translated and written if and only if the run is forced, or the target did not
\* exist, or the file is in the retranslate set; a target that did not exist is
\* created, and any other target is left as it was.
C18_MdWrittenIff ==
  (cfg.kind = "md" /\ Completed) =>
    \A locale \in Range(targetLocales) : \A u \in Units :
      LET shouldTranslate == \/ cfg.forceRetranslate
                             \/ ~PresentAtStart(locale, u)
                             \/ u \in Range(changedSet)
      IN /\ (u \in SentTo(locale)) <=> shouldTranslate
         /\ shouldTranslate => mdTargets[locale][u].exists
         /\ ~shouldTranslate => mdTargets[locale][u] = disk0.mdTargets[locale][u]

\* the units the operator answered freeze for in review
FreezeAnswered ==
  IF answers.global = "review"
  THEN {ChangedList[n] : n \in {m \in 1..Len(ChangedList) : answers.per[m] = "freeze"}}
  ELSE {}

\* C19: a unit the operator answered freeze for in the review of a carefully run is in
\* the frozen set persisted at the end of the run, is not sent to the oracle as a
\* retranslation in the run, and keeps its previous snapshot value as a skipped unit
\* does, in tree sync and in markdown sync.
C19_FreezeIsSkipAndFrozen ==
  (Completed /\ cfg.trackChanges = "carefully") =>
    \A u \in FreezeAnswered :
      /\ u \in Range(PersistedSection.frozen)
      /\ \A s \in sent : ~(s.key = u /\ s.present)
      /\ Lookup(PersistedSection.values, u) = Lookup(Snapshot0.values, u)

\* the operator is being asked or has been asked
Prompted == pc = "ask" \/ answers # NoAnswers

\* the units the run has resolved to retranslate
Retranslate == IF cfg.kind = "json" THEN Range(changedKeys) ELSE Range(changedSet)

\* C20: the operator is asked only in carefully mode, with a changed set that is not
\* empty and without forceRetranslate; mode on resolves every changed unit to
\* retranslate without a prompt, mode off never prompts, and forceRetranslate stops
\* every prompt, in tree sync and in markdown sync.
C20_PromptOnlyWhenCareful ==
  /\ Prompted => /\ cfg.trackChanges = "carefully"
                 /\ reported # {}
                 /\ ~cfg.forceRetranslate
  /\ (Started /\ cfg.trackChanges = "on") => Retranslate = reported

\* the frozen list of the run's content kind as it is in the lock file on disk at the
\* start of the run
Frozen0 ==
  IF cfg.kind = "json" THEN Range(disk0.lockFile.json.frozen)
  ELSE Range(disk0.lockFile.md.frozen)

\* C21: a unit of the persisted frozen set stays in the persisted frozen set through
\* every run without forceRetranslate, in every tracking mode and at every point of
\* the run (the set only grows, in both sections of the lock file), and such a run
\* never resolves it to retranslate nor sends it to the oracle as a retranslation of
\* an existing target value; so only a run with forceRetranslate removes it.
C21_FrozenIsDurable ==
  (Started /\ ~cfg.forceRetranslate) =>
    /\ Range(disk0.lockFile.json.frozen) \subseteq Range(lockFile.json.frozen)
    /\ Range(disk0.lockFile.md.frozen) \subseteq Range(lockFile.md.frozen)
    /\ \A u \in Frozen0 :
         /\ u \notin Retranslate
         /\ \A s \in sent : ~(s.key = u /\ s.present)

\* a finished carefully run that started with a frozen unit whose source value had
\* drifted, in which the operator froze another unit: the persisted frozen set grew
C21_Witness ==
  /\ Completed /\ cfg.trackChanges = "carefully" /\ ~cfg.forceRetranslate
  /\ \E u \in Frozen0 \cap Units :
       /\ HasKey(PersistedSection.values, u)
       /\ \E locale \in Range(targetLocales) : PresentAtStart(locale, u)
  /\ FreezeAnswered # {}
  /\ Frozen0 \cup FreezeAnswered = Range(PersistedSection.frozen)
  /\ Frozen0 # Range(PersistedSection.frozen)

KeysOf(obj) == [n \in 1..Len(obj) |-> obj[n].k]

\* at this level and at every level below it, the keys of result are the keys of
\* source that target has, in source's order; where source and target both have a
\* container the level below mirrors them, and anywhere else result has target's
\* value, which has no keys of its own
RECURSIVE MirrorsSource(_, _, _)
MirrorsSource(result, sourceTree, targetTree) ==
  /\ KeysOf(result) = SelectSeq(KeysOf(sourceTree), LAMBDA k : HasKey(targetTree, k))
  /\ \A n \in 1..Len(result) :
       LET k == result[n].k
           s == Lookup(sourceTree, k)
           t == Lookup(targetTree, k)
       IN IF IsObject(s) /\ IsObject(t)
          THEN IsObject(result[n].v) /\ MirrorsSource(result[n].v.o, s.o, t.o)
          ELSE result[n].v = t /\ (IsObject(t) => t.o = <<>>)

\* C22: the tree reorderToMatchSource(source, target) returns has, at every nesting
\* level, exactly the keys present in both source and target, in source's key order,
\* with target's values at the leaves.
C22_ReorderMirrorsSource ==
  uPc = "reorderToMatchSource" => MirrorsSource(uOut, uSource, uTarget)

\* no property name of the tree, at any level, has a dot in it
RECURSIVE PlainNames(_)
PlainNames(obj) ==
  \A n \in 1..Len(obj) :
    /\ Len(obj[n].k) = 1
    /\ IsObject(obj[n].v) => PlainNames(obj[n].v.o)

\* C23: the tree built by setting into an empty tree each key of extractKeys(T) with
\* T's leaf at that key has the extractKeys of T and T's leaf at every such key, and
\* getNestedValue right after setNestedValue of a string on the same key returns it.
C23_FlattenSetRoundTrip ==
  uPc = "setNestedValue" =>
    LET leaves == extractLeaves(uTarget)
    IN /\ extractKeys(uOut, <<>>) = uKeys
       /\ LeafPairs(uOut, <<>>) = LeafPairs(uTarget, <<>>)
       /\ \A n \in 1..Len(uKeys) :
            leaves[n].t = "str" =>
              getNestedValue(setNestedValue(setAll(<<>>, SubSeq(uKeys, 1, n - 1),
                                                   SubSeq(leaves, 1, n - 1)),
                                            uKeys[n], leaves[n]),
                             uKeys[n]) = leaves[n]

\* the first oracle call of a chunk of the tree run is being made
FirstCallOfChunk == cfg.kind = "json" /\ pc = "call" /\ calls = <<>> /\ calls' # <<>>

\* C24: within one locale of tree sync the first oracle call of every chunk but the
\* first comes after a wait of batchDelay, whether the chunk before it succeeded or
\* failed, and no wait of batchDelay follows the last chunk.
C24_BatchDelayBetweenChunks ==
  /\ [][FirstCallOfChunk =>
          calls'[1].after = (IF i > 0 THEN BatchDelay ELSE 0)]_vars
  /\ [](cfg.kind = "json" /\ pc = "chunk" /\ i >= Len(allKeysToTranslate)
          => slept # BatchDelay)

\* the units of the chunks built so far, one chunk after the other
RECURSIVE ChunkUnits(_)
ChunkUnits(cs) == IF cs = <<>> THEN <<>> ELSE Head(cs).keys \o ChunkUnits(Tail(cs))

\* the chunk loop of the locale has built its last chunk and is over
ChunksDone == cfg.kind = "json" /\ pc = "chunk" /\ i >= Len(allKeysToTranslate)

\* C25: the chunks translateKeys builds for a locale are consecutive pieces of the
\* list of units to translate, in order, of batchSize units each but for a shorter
\* last one, so that when the loop is over every unit of the list is in exactly one
\* chunk and ceil(n / batchSize) payloads were built; and the payload of a chunk maps
\* exactly the chunk's units, each to its source value.
C25_ChunksPartitionUnits ==
  (cfg.kind = "json" /\ pc \in {"chunk", "call"}) =>
    LET n == Len(allKeysToTranslate)
    IN /\ Len(ChunkUnits(chunks)) <= n
       /\ ChunkUnits(chunks) = SubSeq(allKeysToTranslate, 1, Len(ChunkUnits(chunks)))
       /\ \A c \in 1..Len(chunks) :
            /\ Len(chunks[c].keys) \in 1..cfg.batchSize
            /\ c < Len(chunks) => Len(chunks[c].keys) = cfg.batchSize
            /\ KeysOf(chunks[c].payload) = chunks[c].keys
            /\ \A m \in 1..Len(chunks[c].keys) :
                 Lookup(chunks[c].payload, chunks[c].keys[m])
                   = getNestedValue(source, chunks[c].keys[m])
       /\ ChunksDone =>
            /\ ChunkUnits(chunks) = allKeysToTranslate
            /\ Len(chunks) = (n + cfg.batchSize - 1) \div cfg.batchSize

\* the units of a locale that the oracle returned after they were sent as present in
\* the target (a retranslation) or as missing from it
Returned(locale, wasPresent) ==
  {r \in received :
     /\ r.locale = locale
     /\ [locale |-> locale, key |-> r.key, present |-> wasPresent] \in sent}

RECURSIVE FailedUnits(_)
FailedUnits(cs) ==
  IF cs = <<>> THEN 0
  ELSE (IF Head(cs).outcome = "failed" THEN Len(Head(cs).keys) ELSE 0) + FailedUnits(Tail(cs))

\* C26: in the stats of a locale, updated is the number of units that were present in
\* the target, were sent as changed or forced and were returned by the oracle,
\* translated is the number of missing units that were returned, whichever chunks
\* succeeded or failed, and failed is the total size of the failed chunks.
C26_StatsCountWhatHappened ==
  (cfg.kind = "json" /\ Started) =>
    /\ \A n \in 1..Len(results) :
         /\ results[n].updated = Cardinality(Returned(results[n].locale, TRUE))
         /\ results[n].translated = Cardinality(Returned(results[n].locale, FALSE))
    /\ (pc = "locale" /\ li > 1) => results[li - 1].failed = FailedUnits(chunks)

\* the run has returned its stats or has ended with an error
Ended == pc \in {"done", "aborted", "crashed"}

\* C27: every sync run ends, by returning or with an error, for every configured
\* batchSize, maxRetries and set of locales, when every oracle call, delay and prompt
\* returns.
C27_RunTerminates == <>Ended

\* the tree without the leaf at key and without the containers on the way to it that
\* the deletion has left empty; the tree as it is when a part of the way is absent
RECURSIVE WithoutLeaf(_, _)
WithoutLeaf(obj, key) ==
  IF Len(key) = 1 THEN Del(obj, key)
  ELSE LET part == <<Head(key)>>
           cur == Lookup(obj, part)
       IN IF ~IsObject(cur) THEN obj
          ELSE LET sub == WithoutLeaf(cur.o, Tail(key))
               IN IF sub = <<>> /\ cur.o # <<>> THEN Del(obj, part)
                  ELSE Put(obj, part, Obj(sub))

\* C28: deleteNestedKey(tree, path) removes the leaf at path and exactly the containers
\* on that path that the deletion left empty; every other leaf and container is left
\* as it was, and the tree is unchanged when an intermediate segment is absent.
C28_DeletePrunesItsPathOnly ==
  uPc = "deleteNestedKey" => uOut = WithoutLeaf(uTarget, uKey)

\* the operator has been asked what there was to ask: the changed set is resolved
Resolved == Started /\ pc # "ask"

\* the units the run has resolved to skip
Skip == IF cfg.kind = "json" THEN Range(skippedKeys) ELSE Range(skippedSet)

\* the units the run has added to the frozen set it loaded
NewlyFrozen ==
  IF cfg.kind = "json" THEN Range(frozenKeys) \ Frozen0
  ELSE Range(frozenSet) \ (IF cfg.forceRetranslate THEN {} ELSE Frozen0)

\* C29: once the changed set is resolved, the sets retranslate, skip and newlyFrozen
\* are pairwise disjoint and their union is the changed set that change detection
\* computed, in tree sync and in markdown sync, for every global action and every
\* sequence of per-unit answers.
C29_ResolutionPartitionsChanged ==
  Resolved =>
    /\ Retranslate \cap Skip = {}
    /\ Retranslate \cap NewlyFrozen = {}
    /\ Skip \cap NewlyFrozen = {}
    /\ Retranslate \cup Skip \cup NewlyFrozen = reported

NoDuplicates(q) == \A m, n \in 1..Len(q) : m # n => q[m] # q[n]

====
